---- MODULE Spec2Model ----
(***************************************************************************)
(* A model of the Binance long/short scraper:                              *)
(*   src/src/binance_client.py  BinanceClient (fetcher, proxy directory,   *)
(*                              symbol selector)                           *)
(*   src/src/main.py            collect_metrics, main                      *)
(*   src/src/find_imbalanced.py find_top_imbalances, main                  *)
(*   src/src/report.py          imbalance scoring, build_message           *)
(*                                                                         *)
(* The program is single-threaded.  Each component is modelled by its own  *)
(* specification over the shared variables; the variables of the other     *)
(* components stay at their idle values.                                   *)
(*                                                                         *)
(* Python's None is the string "None".  Endpoints and proxies are opaque   *)
(* non-empty strings.  Configuration values are well-formed (the parsing   *)
(* of environment variables by int()/float() is not modelled).             *)
(***************************************************************************)
EXTENDS Integers, Sequences, FiniteSets, TLC

VARIABLES
    \* ---- BinanceClient fields and one _request call
    base_urls,          \* self.base_urls
    free_proxies,       \* self.free_proxies
    preferred_base,     \* self.preferred_base
    preferred_proxy,    \* self.preferred_proxy
    max_attempts,       \* max(1, int(BINANCE_MAX_ATTEMPTS)), fixed per process
    pc,                 \* position of the _request call
    bases,              \* local `bases` of the call
    effective_proxies,  \* local `effective_proxies` of the current endpoint
    bi, pi, attempt,    \* loop positions: endpoint, proxy, attempt (0-based as range())
    last_error,         \* local `last_error`
    getLog,             \* the session.get calls of the current _request call
    returned,           \* the value the call returned
    \* ---- BinanceClient.__init__ and _load_free_proxies
    use_free_proxies,   \* self.use_free_proxies (BINANCE_USE_FREE_PROXIES)
    validate_env,       \* a proxy-validation toggle in the environment; no code reads it
    custom_proxy_url,   \* BINANCE_FREE_PROXY_URL or None
    types,              \* self.free_proxy_types
    limit,              \* self.free_proxy_limit
    lpc,                \* position in __init__ / _load_free_proxies
    ti,                 \* index of the type the loop is at
    seen,               \* local `seen`
    raw_proxies,        \* local `raw_proxies`
    loadGets,           \* the session.get calls of the load
    load_raised,        \* an exception left _load_free_proxies
    \* ---- the scorer of find_top_imbalances
    metrics,            \* the Pair Snapshots handed to the scorer
    limit_top,          \* parameter `limit` of find_top_imbalances
    spc,                \* position of the scorer
    sorted_pairs,       \* local `sorted_pairs`
    top_pairs,          \* first element returned: sorted_pairs[:limit]
    imbalanced,         \* second element returned: the highlighted pairs
    \* ---- the symbol selector
    exchange_info,      \* "symbols" of /fapi/v1/exchangeInfo
    tickers,            \* the /fapi/v1/ticker/24hr snapshot
    candidates,         \* `limit` of list_top_volume_usdt_perpetual / `candidates`
    max_quote_volume,   \* <<>> for None, <<c>> for a ceiling c
    sel_pc,             \* which selector ran, or "ready" / "raised"
    scored,             \* local `scored`
    ticker_map,         \* symbols cached in local `ticker_map`
    selected,           \* the symbols selected
    \* ---- collect_metrics
    symbols,            \* parameter `symbols`
    progress_given,     \* a progress callback was passed
    cpc,                \* position of collect_metrics
    idx,                \* loop index (1-based, as enumerate(..., start=1))
    calls,              \* the metrics fetched so far for the current symbol
    results,            \* local `results`
    errors,             \* local `errors`
    fetched,            \* per symbol gone through, how its client calls ended
    progress_log,       \* the calls of the progress callback
    collect_raised,     \* an exception left collect_metrics
    \* ---- main.main
    mpc,                \* position of main
    exit_code,          \* exit status of the process, once exited
    sent,               \* the messages passed to TelegramClient.send_message
    send_raised,        \* a send_message call raised
    \* ---- find_imbalanced.main
    fpc,                \* position of find_imbalanced.main
    find_error,         \* the exception that ended the run, or None
    market,             \* per symbol, the ratios the three endpoints serve for it
    \* ---- one call of the market data reader (top_trader_accounts and the like)
    rpc,                \* position of the reader call
    record,             \* the record the endpoint serves as data[-1]
    parsed,             \* <<metric>> once _parse_record returned one
    reader_error        \* the exception that left the reader call, or None

reqVars == <<base_urls, free_proxies, preferred_base, preferred_proxy, max_attempts,
             pc, bases, effective_proxies, bi, pi, attempt, last_error, getLog,
             returned>>

loadVars == <<use_free_proxies, validate_env, custom_proxy_url, types, limit, lpc, ti,
              seen, raw_proxies, loadGets, load_raised>>

scoreVars == <<metrics, limit_top, spc, sorted_pairs, top_pairs, imbalanced>>

\* The client's variables and those of the pipeline built on it
clientVars == <<reqVars, loadVars>>

selVars == <<exchange_info, tickers, candidates, max_quote_volume, sel_pc, scored,
             ticker_map, selected>>

colVars == <<symbols, progress_given, cpc, idx, calls, results, errors, fetched,
             progress_log, collect_raised>>

mainVars == <<mpc, exit_code, sent, send_raised>>

findVars == <<fpc, find_error, market>>

readVars == <<rpc, record, parsed, reader_error>>

pipeVars == <<scoreVars, selVars, colVars, mainVars, findVars, readVars>>

\* What the scorer, the selector and collect_metrics leave alone
scoreRest == <<clientVars, selVars, colVars, mainVars, findVars, readVars>>

selRest == <<clientVars, scoreVars, colVars, mainVars, findVars, readVars>>

colRest == <<clientVars, scoreVars, selVars, findVars, readVars>>

vars == <<clientVars, pipeVars>>

None == "None"

----------------------------------------------------------------------------
\* Generic sequence helpers

Range(s) == {s[i] : i \in 1..Len(s)}

RECURSIVE Without(_, _)
\* [x for x in s if x != v]
Without(s, v) ==
    IF s = <<>> THEN <<>>
    ELSE IF Head(s) = v THEN Without(Tail(s), v)
    ELSE <<Head(s)>> \o Without(Tail(s), v)

RECURSIVE Dedup(_, _)
\* order-preserving removal of duplicates, as the `seen` loops do
Dedup(s, seenSet) ==
    IF s = <<>> THEN <<>>
    ELSE IF Head(s) \in seenSet THEN Dedup(Tail(s), seenSet)
    ELSE <<Head(s)>> \o Dedup(Tail(s), seenSet \cup {Head(s)})

SeqsUpTo(S, n) == UNION {[1..k -> S] : k \in 0..n}

NoDup(s) == \A i, j \in 1..Len(s) : s[i] = s[j] => i = j

Max2(a, b) == IF a >= b THEN a ELSE b

Min2(a, b) == IF a <= b THEN a ELSE b

----------------------------------------------------------------------------
\* BinanceClient: endpoints

BASE_URL == "fapi"

\* Endpoints an operator may configure in BINANCE_BASE_URLS besides BASE_URL
CustomUrls == {"E1", "E2"}

\* Longest BINANCE_BASE_URLS list the model draws
MaxEnvUrls == 2

\* host:port entries the proxy lists may hold
HostPorts == {"h1:80", "h2:80"}

\* proxy_url = f"http://{p}"
ProxyUrl(p) == IF p = "h1:80" THEN "http://h1:80" ELSE "http://h2:80"

\* Proxy addresses free_proxies may hold
ProxyAddrs == {ProxyUrl(p) : p \in HostPorts}

\* Largest BINANCE_MAX_ATTEMPTS value the model draws (0 is clamped to 1)
MaxAttemptsEnv == 2

\* _build_base_urls: the configured list, BASE_URL appended, duplicates removed
BuildBaseUrls(env_list) == Dedup(env_list \o <<BASE_URL>>, {})

\* max_attempts = max(1, int(os.getenv("BINANCE_MAX_ATTEMPTS", "1")))
MaxAttemptsOf(env) == Max2(1, env)

----------------------------------------------------------------------------
\* BinanceClient._request

\* proxy_candidates = [None] + self.free_proxies
ProxyCandidates == <<None>> \o free_proxies

\* Mutant: only the preferred endpoint is kept once there is one
OrderedBasesPreferredOnly(pb) ==
    IF pb # None /\ pb \in Range(base_urls) THEN <<pb>> ELSE base_urls

\* Mutant: the preferred endpoint is not promoted
OrderedBasesNoPromotion(pb) == base_urls

\* Mutant: the preferred endpoint is put first without being removed from the rest
OrderedBasesKeepsDuplicate(pb) ==
    IF pb # None /\ pb \in Range(base_urls) THEN <<pb>> \o base_urls ELSE base_urls

\* bases: the preferred endpoint first, the others in configured order
OrderedBases(pb) ==
    IF pb # None /\ pb \in Range(base_urls)
    THEN <<pb>> \o Without(base_urls, pb)
    ELSE base_urls

\* Mutant: the preferred proxy is put first without being removed from the rest
EffectiveProxiesKeepsDuplicate(pp) ==
    IF pp # None THEN <<pp>> \o ProxyCandidates ELSE ProxyCandidates

\* effective_proxies: the preferred proxy first, then the other candidates
EffectiveProxies(pp) ==
    IF pp # None
    THEN <<pp>> \o Without(ProxyCandidates, pp)
    ELSE ProxyCandidates

\* What one session.get attempt can come to.  "data" and "empty" are a
\* status < 400 with a JSON body (non-empty / empty); the others raise.
Successes == {"data", "empty"}

Failures == {"http_error", "net_error", "bad_json"}

\* last_error = None, in the shape of the errors the call records
NoError == [base |-> None, proxy |-> None, attempt |-> 0, kind |-> None]

\* The scorer at rest
ScoreIdle ==
    /\ metrics = <<>>
    /\ limit_top = 0
    /\ spc = "idle"
    /\ sorted_pairs = <<>>
    /\ top_pairs = <<>>
    /\ imbalanced = <<>>

\* The selector at rest
SelIdle ==
    /\ exchange_info = <<>>
    /\ tickers = <<>>
    /\ candidates = 0
    /\ max_quote_volume = <<>>
    /\ sel_pc = "idle"
    /\ scored = <<>>
    /\ ticker_map = {}
    /\ selected = <<>>

\* collect_metrics at rest
ColIdle ==
    /\ symbols = <<>>
    /\ progress_given = FALSE
    /\ cpc = "idle"
    /\ idx = 0
    /\ calls = <<>>
    /\ results = <<>>
    /\ errors = <<>>
    /\ fetched = <<>>
    /\ progress_log = <<>>
    /\ collect_raised = FALSE

\* main not started
MainIdle ==
    /\ mpc = "idle"
    /\ exit_code = 0
    /\ sent = <<>>
    /\ send_raised = FALSE

\* find_imbalanced.main not started
FindIdle ==
    /\ fpc = "idle"
    /\ find_error = None
    /\ market = <<>>

\* A record: "num" with longShortRatio v (in hundredths), "bad" with one
\* float() rejects, "missing" without the key; "none" is no record
NoRecord == [kind |-> "none", v |-> 0]

\* No reader call under way
ReadIdle ==
    /\ rpc = "idle"
    /\ record = NoRecord
    /\ parsed = <<>>
    /\ reader_error = None

\* The pipeline at rest, while the client alone is looked at
PipeIdle == ScoreIdle /\ SelIdle /\ ColIdle /\ MainIdle /\ FindIdle /\ ReadIdle

\* The proxy load is over (or was never asked for): its variables at rest
LoadIdle ==
    /\ use_free_proxies = FALSE
    /\ validate_env = FALSE
    /\ custom_proxy_url = None
    /\ types = <<>>
    /\ limit = 0
    /\ lpc = "constructed"
    /\ ti = 0
    /\ seen = {}
    /\ raw_proxies = <<>>
    /\ loadGets = <<>>
    /\ load_raised = FALSE

ReqInit ==
    /\ base_urls \in {BuildBaseUrls(l) : l \in SeqsUpTo(CustomUrls \cup {BASE_URL}, MaxEnvUrls)}
    /\ free_proxies \in {s \in SeqsUpTo(ProxyAddrs, Cardinality(ProxyAddrs)) : NoDup(s)}
    /\ max_attempts \in {MaxAttemptsOf(e) : e \in 0..MaxAttemptsEnv}
    /\ preferred_base = None
    /\ preferred_proxy = None
    /\ pc = "idle"
    /\ bases = <<>>
    /\ effective_proxies = <<>>
    /\ bi = 0
    /\ pi = 0
    /\ attempt = 0
    /\ last_error = NoError
    /\ getLog = <<>>
    /\ returned = None
    /\ LoadIdle
    /\ PipeIdle

\* Entry of _request up to the first session.get (lines 128-147)
Request ==
    /\ pc \in {"idle", "returned", "raised"}
    /\ pc' = "running"
    /\ last_error' = NoError
    /\ bases' = OrderedBases(preferred_base)
    /\ effective_proxies' = EffectiveProxies(preferred_proxy)
    /\ bi' = 1
    /\ pi' = 1
    /\ attempt' = 0
    /\ getLog' = <<>>
    /\ returned' = None
    /\ UNCHANGED <<base_urls, free_proxies, preferred_base, preferred_proxy, max_attempts>>
    /\ UNCHANGED <<loadVars, pipeVars>>

\* The loops after an attempt that did not return: the next attempt, else the
\* next proxy, else the next endpoint; after the last combination, line 168
NextCombination ==
    IF attempt + 1 < max_attempts
    THEN /\ attempt' = attempt + 1
         /\ UNCHANGED <<bi, pi, effective_proxies, pc>>
    ELSE IF pi < Len(effective_proxies)
    THEN /\ pi' = pi + 1
         /\ attempt' = 0
         /\ UNCHANGED <<bi, effective_proxies, pc>>
    ELSE IF bi < Len(bases)
    THEN /\ bi' = bi + 1
         /\ pi' = 1
         /\ attempt' = 0
         /\ effective_proxies' = EffectiveProxies(preferred_proxy)
         /\ UNCHANGED pc
    ELSE /\ pc' = "raised"
         /\ UNCHANGED <<bi, pi, attempt, effective_proxies>>

\* Mutant: an empty body is taken for a failed attempt and the loops go on
AttemptSucceedsUnlessEmpty(body) ==
    /\ pc = "running"
    /\ getLog' = Append(getLog, [base |-> bases[bi], proxy |-> effective_proxies[pi],
                                 ok |-> TRUE])
    /\ IF body = "empty"
       THEN /\ NextCombination
            /\ UNCHANGED <<preferred_base, preferred_proxy, returned>>
       ELSE /\ preferred_proxy' = IF effective_proxies[pi] # None
                                  THEN effective_proxies[pi] ELSE preferred_proxy
            /\ preferred_base' = bases[bi]
            /\ returned' = body
            /\ pc' = "returned"
            /\ UNCHANGED <<effective_proxies, bi, pi, attempt>>
    /\ UNCHANGED <<base_urls, free_proxies, max_attempts, bases, last_error>>
    /\ UNCHANGED <<loadVars, pipeVars>>

\* Mutant: the proxy of the attempt is remembered even when there is none
AttemptSucceedsClearsProxy(body) ==
    /\ pc = "running"
    /\ getLog' = Append(getLog, [base |-> bases[bi], proxy |-> effective_proxies[pi],
                                 ok |-> TRUE])
    /\ preferred_proxy' = effective_proxies[pi]
    /\ preferred_base' = bases[bi]
    /\ returned' = body
    /\ pc' = "returned"
    /\ UNCHANGED <<base_urls, free_proxies, max_attempts, bases, effective_proxies,
                   bi, pi, attempt, last_error>>
    /\ UNCHANGED <<loadVars, pipeVars>>

\* A successful attempt: remember proxy and endpoint, return the body
AttemptSucceeds(body) ==
    /\ pc = "running"
    /\ LET base == bases[bi]
           proxy == effective_proxies[pi]
       IN  /\ getLog' = Append(getLog, [base |-> base, proxy |-> proxy, ok |-> TRUE])
           /\ preferred_proxy' = IF proxy # None THEN proxy ELSE preferred_proxy
           /\ preferred_base' = base
    /\ returned' = body
    /\ pc' = "returned"
    /\ UNCHANGED <<base_urls, free_proxies, max_attempts, bases, effective_proxies,
                   bi, pi, attempt, last_error>>
    /\ UNCHANGED <<loadVars, pipeVars>>

\* Mutant: only the first failure of the call is remembered
LastErrorKeepsFirst(prev, exc) == IF prev = NoError THEN exc ELSE prev

\* last_error = exc (line 165)
LastErrorAfter(prev, exc) == exc

\* Mutant: a failure through the preferred proxy, or at the preferred
\* endpoint, makes the client forget it
AttemptFailsForgetsPreferred(kind) ==
    /\ pc = "running"
    /\ getLog' = Append(getLog, [base |-> bases[bi], proxy |-> effective_proxies[pi],
                                 ok |-> FALSE])
    /\ last_error' = [base |-> bases[bi], proxy |-> effective_proxies[pi],
                      attempt |-> attempt + 1, kind |-> kind]
    /\ preferred_proxy' = IF effective_proxies[pi] = preferred_proxy THEN None
                          ELSE preferred_proxy
    /\ preferred_base' = IF bases[bi] = preferred_base THEN None ELSE preferred_base
    /\ NextCombination
    /\ UNCHANGED <<base_urls, free_proxies, max_attempts, bases, returned>>
    /\ UNCHANGED <<loadVars, pipeVars>>

\* A failed attempt: record it as last_error and move to the next attempt,
\* proxy or endpoint; after the last combination, raise last_error
AttemptFails(kind) ==
    /\ pc = "running"
    /\ LET base == bases[bi]
           proxy == effective_proxies[pi]
       IN  /\ getLog' = Append(getLog, [base |-> base, proxy |-> proxy, ok |-> FALSE])
           /\ last_error' = LastErrorAfter(last_error,
                                            [base |-> base, proxy |-> proxy,
                                             attempt |-> attempt + 1, kind |-> kind])
    /\ NextCombination
    /\ UNCHANGED <<base_urls, free_proxies, preferred_base, preferred_proxy,
                   max_attempts, bases, returned>>
    /\ UNCHANGED <<loadVars, pipeVars>>

ReqNext ==
    \/ Request
    \/ \E body \in Successes : AttemptSucceeds(body)
    \/ \E kind \in Failures : AttemptFails(kind)

SpecRequest == ReqInit /\ [][ReqNext]_vars

\* _request is straight-line code in one thread: once called, its loop keeps
\* running, whatever the attempts come to
SpecRequestFair ==
    /\ ReqInit
    /\ [][ReqNext]_vars
    /\ WF_vars((\E body \in Successes : AttemptSucceeds(body))
                  \/ (\E kind \in Failures : AttemptFails(kind)))

----------------------------------------------------------------------------
\* Claims about _request

\* Number of (endpoint, proxy, attempt) combinations of one call
Combinations == Len(base_urls) * (Len(free_proxies) + 1) * max_attempts

\* Number of session.get calls of the current call made at (b, p)
AttemptsAt(b, p) ==
    Cardinality({n \in 1..Len(getLog) : getLog[n].base = b /\ getLog[n].proxy = p})

\* The state part of C1: a _request call that raises has made exactly
\* |base_urls| x (|free_proxies| + 1) x max_attempts GET attempts, max_attempts
\* at every (endpoint, proxy) pair, all of them failed; and the call ends: a
\* running call has made fewer attempts than there are combinations and its
\* loop position is a valid one, so every step is one more attempt towards
\* that bound.
C1_Exhaustion ==
    /\ pc = "raised" =>
          /\ Len(getLog) = Combinations
          /\ \A n \in 1..Len(getLog) : ~getLog[n].ok
          /\ \A b \in Range(base_urls) : \A p \in {None} \cup Range(free_proxies) :
                AttemptsAt(b, p) = max_attempts
          /\ last_error # NoError
    /\ pc = "running" =>
          /\ Len(getLog) < Combinations
          /\ bi \in 1..Len(bases)
          /\ pi \in 1..Len(effective_proxies)
          /\ attempt \in 0..(max_attempts - 1)
    /\ pc = "returned" => Len(getLog) <= Combinations

\* C1: a _request call raises only after every (endpoint, proxy, attempt)
\* combination was tried and failed (C1_Exhaustion in every state), and every
\* call that has started comes to return or to raise.
C1_RaisesOnlyAfterExhaustion ==
    /\ []C1_Exhaustion
    /\ (pc = "running") ~> (pc \in {"returned", "raised"})

\* C1 witness: a call raised although an earlier one had promoted an endpoint
\* and a proxy, with several endpoints, proxies and attempts
C1_Witness ==
    /\ pc = "raised"
    /\ Len(base_urls) >= 2
    /\ Len(free_proxies) >= 2
    /\ max_attempts >= 2
    /\ preferred_base # None
    /\ preferred_proxy # None

\* C2: the first successful attempt ends the call: it is the last GET of the
\* call, every GET before it failed, the body is returned, its endpoint is
\* preferred_base; and the next call puts that endpoint first, so its first
\* GET goes there.
C2_FirstSuccessReturns ==
    /\ [](/\ pc = "returned" =>
                /\ getLog # <<>>
                /\ getLog[Len(getLog)].ok
                /\ \A n \in 1..(Len(getLog) - 1) : ~getLog[n].ok
                /\ preferred_base = getLog[Len(getLog)].base
                /\ returned \in Successes
          /\ pc # "returned" => \A n \in 1..Len(getLog) : ~getLog[n].ok
          /\ (pc # "idle" /\ getLog # <<>>) => getLog[1].base = bases[1])
    /\ [][(pc = "returned" /\ pc' = "running") => bases'[1] = preferred_base]_vars

\* C2 witness: endpoints [E1, E2, ...], E1 failed, E2 succeeded and is now
\* preferred although it is not the first configured endpoint
C2_Witness ==
    /\ pc = "returned"
    /\ Len(base_urls) >= 2
    /\ preferred_base = base_urls[2]
    /\ \E n \in 1..Len(getLog) : getLog[n].base = base_urls[1] /\ ~getLog[n].ok

\* Position of x in the sequence s (0 when absent)
IndexOf(s, x) == IF x \in Range(s) THEN CHOOSE i \in 1..Len(s) : s[i] = x ELSE 0

\* s is a permutation of t: each element of t exactly once
IsPermutation(s, t) == Len(s) = Len(t) /\ Range(s) = Range(t) /\ NoDup(s)

\* s is t with `first` moved to the front, the others in the order of t
PromotedOrder(s, t, first) ==
    /\ IsPermutation(s, t)
    /\ s[1] = first
    /\ \A i, j \in 2..Len(s) : i < j => IndexOf(t, s[i]) < IndexOf(t, s[j])

\* C3: in every call the endpoints iterated are a permutation of base_urls
\* (the preferred one first, the rest in configured order) and the proxies
\* iterated at each endpoint a permutation of [direct] + free_proxies (the
\* preferred one first, the rest in original order); the GETs of the call walk
\* exactly these sequences, max_attempts at each pair.
C3_PromotionKeepsCandidates ==
    pc = "running" =>
        /\ IsPermutation(bases, base_urls)
        /\ IF preferred_base = None THEN bases = base_urls
           ELSE PromotedOrder(bases, base_urls, preferred_base)
        /\ IsPermutation(effective_proxies, <<None>> \o free_proxies)
        /\ IF preferred_proxy = None THEN effective_proxies = <<None>> \o free_proxies
           ELSE PromotedOrder(effective_proxies, <<None>> \o free_proxies, preferred_proxy)
        /\ \A n \in 1..Len(getLog) :
              LET P == Len(free_proxies) + 1
                  A == max_attempts
              IN  /\ getLog[n].base = bases[((n - 1) \div (P * A)) + 1]
                  /\ getLog[n].proxy = effective_proxies[(((n - 1) \div A) % P) + 1]

\* C3 witness: a call under way on its last endpoint, with a promoted endpoint
\* and a promoted proxy that are not the first configured ones
C3_Witness ==
    /\ pc = "running"
    /\ Len(base_urls) >= 3
    /\ Len(free_proxies) >= 2
    /\ preferred_base = base_urls[3]
    /\ preferred_proxy = free_proxies[2]
    /\ bi = Len(bases)
    /\ pi = Len(effective_proxies)

----------------------------------------------------------------------------
\* BinanceClient.__init__ (lines 61-77) and _load_free_proxies

\* Proxy types BINANCE_FREE_PROXY_TYPES may name; "socks" has no source
ProxyTypes == {"http", "https", "socks"}

\* Longest BINANCE_FREE_PROXY_TYPES list the model draws
MaxTypes == 2

\* Largest BINANCE_FREE_PROXY_LIMIT the model draws
MaxLimit == 2

\* The texts a source may return, as lines: nothing; one entry; two entries
\* around a line without ":"; an entry listed twice
SourceTexts ==
    { <<>>,
      <<"h1:80">>,
      <<"h2:80", "junk", "h1:80">>,
      <<"h1:80", "h1:80">> }

\* sources.get(t), with BINANCE_FREE_PROXY_URL replacing the https source
SourceUrl(t) ==
    IF t = "http" THEN "iplocate/http.txt"
    ELSE IF t = "https"
         THEN (IF custom_proxy_url # None THEN custom_proxy_url ELSE "iplocate/https.txt")
    ELSE None

\* types = types or ["https"]
TypesOrDefault(ts) == IF ts = <<>> THEN <<"https">> ELSE ts

RECURSIVE Candidates(_)
\* candidates = [line.strip() for line in resp.text.splitlines() if ":" in line]
Candidates(lines) ==
    IF lines = <<>> THEN <<>>
    ELSE IF Head(lines) \in HostPorts THEN <<Head(lines)>> \o Candidates(Tail(lines))
    ELSE Candidates(Tail(lines))

RECURSIVE AppendAll(_, _, _)
\* Mutant: the candidates are appended without looking at `seen`
AppendAll(raw, cands, seenSet) ==
    IF cands = <<>> THEN raw
    ELSE AppendAll(Append(raw, ProxyUrl(Head(cands))), Tail(cands),
                   seenSet \cup {Head(cands)})

RECURSIVE AppendNew(_, _, _)
\* the loop of lines 195-200: the candidates not seen yet, as proxy URLs
AppendNew(raw, cands, seenSet) ==
    IF cands = <<>> THEN raw
    ELSE IF Head(cands) \in seenSet THEN AppendNew(raw, Tail(cands), seenSet)
    ELSE AppendNew(Append(raw, ProxyUrl(Head(cands))), Tail(cands),
                   seenSet \cup {Head(cands)})

\* Mutant: the slice keeps one entry too many
TakeOffByOne(s, n) == SubSeq(s, 1, Min2(Len(s), n + 1))

\* raw_proxies[:limit]
Take(s, n) == SubSeq(s, 1, Min2(Len(s), n))

\* The client's fields while the proxy load runs
ReqIdle ==
    /\ base_urls = <<BASE_URL>>
    /\ max_attempts = 1
    /\ preferred_base = None
    /\ preferred_proxy = None
    /\ pc = "idle"
    /\ bases = <<>>
    /\ effective_proxies = <<>>
    /\ bi = 0
    /\ pi = 0
    /\ attempt = 0
    /\ last_error = NoError
    /\ getLog = <<>>
    /\ returned = None

\* __init__ at line 67-69, with the configuration read
LoadInit ==
    /\ ReqIdle
    /\ PipeIdle
    /\ free_proxies = <<>>
    /\ use_free_proxies \in BOOLEAN
    /\ validate_env \in BOOLEAN
    /\ custom_proxy_url \in {None, "custom.txt"}
    /\ types \in SeqsUpTo(ProxyTypes, MaxTypes)
    /\ limit \in 0..MaxLimit
    /\ lpc = "init"
    /\ ti = 0
    /\ seen = {}
    /\ raw_proxies = <<>>
    /\ loadGets = <<>>
    /\ load_raised = FALSE

\* use_free_proxies is off: free_proxies stays empty
InitWithoutProxies ==
    /\ lpc = "init"
    /\ ~use_free_proxies
    /\ lpc' = "constructed"
    /\ UNCHANGED <<use_free_proxies, validate_env, custom_proxy_url, types, limit, ti,
                   seen, raw_proxies, loadGets, load_raised>>
    /\ UNCHANGED <<reqVars, pipeVars>>

\* __init__ calls _load_free_proxies(limit, types) (lines 70-72, 171-180)
LoadFreeProxies ==
    /\ lpc = "init"
    /\ use_free_proxies
    /\ lpc' = "loading"
    /\ types' = TypesOrDefault(types)
    /\ ti' = 1
    /\ seen' = {}
    /\ raw_proxies' = <<>>
    /\ UNCHANGED <<use_free_proxies, validate_env, custom_proxy_url, limit, loadGets,
                   load_raised>>
    /\ UNCHANGED <<reqVars, pipeVars>>

\* A type without a source: continue (lines 182-184)
SkipUnknownType ==
    /\ lpc = "loading"
    /\ ti <= Len(types)
    /\ SourceUrl(types[ti]) = None
    /\ ti' = ti + 1
    /\ UNCHANGED <<use_free_proxies, validate_env, custom_proxy_url, types, limit, lpc,
                   seen, raw_proxies, loadGets, load_raised>>
    /\ UNCHANGED <<reqVars, pipeVars>>

\* Mutant: the failed fetch is not caught in the loop; the exception leaves
\* _load_free_proxies and __init__ falls back to no proxies (lines 74-77)
FetchFailsUncaught ==
    /\ lpc = "loading"
    /\ ti <= Len(types)
    /\ SourceUrl(types[ti]) # None
    /\ loadGets' = Append(loadGets, [url |-> SourceUrl(types[ti]), proxy |-> None,
                                     ok |-> FALSE, lines |-> <<>>])
    /\ load_raised' = TRUE
    /\ free_proxies' = <<>>
    /\ lpc' = "constructed"
    /\ UNCHANGED <<use_free_proxies, validate_env, custom_proxy_url, types, limit, ti,
                   seen, raw_proxies>>
    /\ UNCHANGED <<base_urls, preferred_base, preferred_proxy, max_attempts, pc, bases,
                   effective_proxies, bi, pi, attempt, last_error, getLog, returned>>
    /\ UNCHANGED pipeVars

\* The fetch of a source fails (network error or failure status): the handler
\* of lines 189-191 skips the source and the loop goes on
FetchFails ==
    /\ lpc = "loading"
    /\ ti <= Len(types)
    /\ SourceUrl(types[ti]) # None
    /\ loadGets' = Append(loadGets, [url |-> SourceUrl(types[ti]), proxy |-> None,
                                     ok |-> FALSE, lines |-> <<>>])
    /\ ti' = ti + 1
    /\ UNCHANGED <<use_free_proxies, validate_env, custom_proxy_url, types, limit, lpc,
                   seen, raw_proxies, load_raised>>
    /\ UNCHANGED <<reqVars, pipeVars>>

\* The fetch of a source succeeds: its new candidates are collected
FetchSucceeds(lines) ==
    /\ lpc = "loading"
    /\ ti <= Len(types)
    /\ SourceUrl(types[ti]) # None
    /\ loadGets' = Append(loadGets, [url |-> SourceUrl(types[ti]), proxy |-> None,
                                     ok |-> TRUE, lines |-> lines])
    /\ raw_proxies' = AppendNew(raw_proxies, Candidates(lines), seen)
    /\ seen' = seen \cup Range(Candidates(lines))
    /\ ti' = ti + 1
    /\ UNCHANGED <<use_free_proxies, validate_env, custom_proxy_url, types, limit, lpc,
                   load_raised>>
    /\ UNCHANGED <<reqVars, pipeVars>>

\* After the last type: return raw_proxies[:limit], which __init__ stores
LoadReturns ==
    /\ lpc = "loading"
    /\ ti > Len(types)
    /\ free_proxies' = Take(raw_proxies, limit)
    /\ lpc' = "constructed"
    /\ UNCHANGED <<use_free_proxies, validate_env, custom_proxy_url, types, limit, ti,
                   seen, raw_proxies, loadGets, load_raised>>
    /\ UNCHANGED <<base_urls, preferred_base, preferred_proxy, max_attempts, pc, bases,
                   effective_proxies, bi, pi, attempt, last_error, getLog, returned>>
    /\ UNCHANGED pipeVars

LoadNext ==
    \/ InitWithoutProxies
    \/ LoadFreeProxies
    \/ SkipUnknownType
    \/ FetchFails
    \/ \E lines \in SourceTexts : FetchSucceeds(lines)
    \/ LoadReturns

SpecProxy == LoadInit /\ [][LoadNext]_vars

----------------------------------------------------------------------------
\* Claims about the proxy load

\* The proxy sources the load may fetch
SourceUrls == {"iplocate/http.txt", "iplocate/https.txt", "custom.txt"}

RECURSIVE Discovered(_)
\* The proxy addresses of the successful fetches, in order of discovery
Discovered(gets) ==
    IF gets = <<>> THEN <<>>
    ELSE LET g == Head(gets)
             c == Candidates(g.lines)
         IN  (IF g.ok THEN [i \in 1..Len(c) |-> ProxyUrl(c[i])] ELSE <<>>)
             \o Discovered(Tail(gets))

\* Number of requested types that have a source
SourcesRequested == Cardinality({i \in 1..Len(types) : SourceUrl(types[i]) # None})

\* C9: no exception leaves the proxy load; a source whose fetch fails is
\* skipped and every other requested source is still fetched, everything the
\* successful fetches held is collected, and the client is constructed with
\* what was collected (possibly nothing).
C9_ProxyLoadNeverRaises ==
    /\ ~load_raised
    /\ (lpc = "constructed" /\ use_free_proxies) =>
          /\ Len(loadGets) = SourcesRequested
          /\ Range(raw_proxies) = Range(Discovered(loadGets))
          /\ Range(free_proxies) \subseteq Range(raw_proxies)
          /\ (limit >= Len(raw_proxies) => free_proxies = raw_proxies)

\* C9 witness: the first source failed, a later one was fetched and its
\* proxies are in the constructed client
C9_Witness ==
    /\ lpc = "constructed"
    /\ Len(loadGets) >= 2
    /\ ~loadGets[1].ok
    /\ loadGets[2].ok
    /\ free_proxies # <<>>

\* A liveness probe of proxy p: a successful GET of the load made through p
Probed(p) == \E n \in 1..Len(loadGets) : loadGets[n].proxy = p /\ loadGets[n].ok

----------------------------------------------------------------------------
\* report.py: the imbalance factor, and the scorer of find_top_imbalances
\*
\* A ratio is an integer number of hundredths (230 is 2.30).  A metric is a
\* record [state, ratio]: state "absent" is None (or an empty dict), "ratio"
\* a metric with a numeric ratio, "no_ratio" one whose ratio is missing or
\* not numeric.  A factor is an exact fraction <<numerator, denominator>>, so
\* that 1/ratio loses nothing; floating-point rounding is not modelled.

Absent == [state |-> "absent", ratio |-> 0]

Metric(r) == [state |-> "ratio", ratio |-> r]

\* A metric whose "ratio" is missing or is not a number
NoRatio == [state |-> "no_ratio", ratio |-> 0]

Snapshot(symbol, accounts, positions, global) ==
    [symbol |-> symbol, accounts |-> accounts, positions |-> positions, global |-> global]

\* Fractions with positive denominators
FracGT(a, b) == a[1] * b[2] > b[1] * a[2]

FracGE(a, b) == a[1] * b[2] >= b[1] * a[2]

FracMax(a, b) == IF FracGE(a, b) THEN a ELSE b

\* HIGHLIGHT_THRESHOLD = 2.3
HIGHLIGHT_THRESHOLD == <<23, 10>>

\* Mutant: a ratio below 1 is not inverted
ImbalanceValueNotInverted(metric) ==
    IF metric.state # "ratio" THEN <<0, 1>>
    ELSE IF metric.ratio <= 0 THEN <<0, 1>>
    ELSE <<metric.ratio, 100>>

\* _imbalance_value: 0 if unavailable or ratio <= 0, else ratio or 1/ratio
ImbalanceValue(metric) ==
    IF metric.state # "ratio" THEN <<0, 1>>
    ELSE IF metric.ratio <= 0 THEN <<0, 1>>
    ELSE IF metric.ratio >= 100 THEN <<metric.ratio, 100>>
    ELSE <<100, metric.ratio>>

\* _pair_max_imbalance: max over accounts, positions, global
PairMaxImbalance(item) ==
    FracMax(ImbalanceValue(item.accounts),
            FracMax(ImbalanceValue(item.positions), ImbalanceValue(item.global)))

RECURSIVE InsertDescBeforeEqual(_, _)
\* Mutant: x put before the elements whose key equals its own
InsertDescBeforeEqual(s, x) ==
    IF s = <<>> THEN <<x>>
    ELSE IF FracGT(PairMaxImbalance(Head(s)), PairMaxImbalance(x))
         THEN <<Head(s)>> \o InsertDescBeforeEqual(Tail(s), x)
    ELSE <<x>> \o s

RECURSIVE InsertDesc(_, _)
\* x put behind every element whose key is at least its own
InsertDesc(s, x) ==
    IF s = <<>> THEN <<x>>
    ELSE IF FracGE(PairMaxImbalance(Head(s)), PairMaxImbalance(x))
         THEN <<Head(s)>> \o InsertDesc(Tail(s), x)
    ELSE <<x>> \o s

RECURSIVE SortedByImbalance(_)
\* sorted(pairs, key=_pair_max_imbalance, reverse=True): descending and stable
SortedByImbalance(pairs) ==
    IF pairs = <<>> THEN <<>>
    ELSE InsertDesc(SortedByImbalance(SubSeq(pairs, 1, Len(pairs) - 1)),
                    pairs[Len(pairs)])

\* Mutant: the threshold itself counts as exceeded
ReachesThreshold(item) == FracGE(PairMaxImbalance(item), HIGHLIGHT_THRESHOLD)

\* _pair_max_imbalance(m) > HIGHLIGHT_THRESHOLD
ExceedsThreshold(item) == FracGT(PairMaxImbalance(item), HIGHLIGHT_THRESHOLD)

RECURSIVE Highlighted(_)
\* [m for m in sorted_pairs if _pair_max_imbalance(m) > HIGHLIGHT_THRESHOLD]
Highlighted(pairs) ==
    IF pairs = <<>> THEN <<>>
    ELSE IF ExceedsThreshold(Head(pairs)) THEN <<Head(pairs)>> \o Highlighted(Tail(pairs))
    ELSE Highlighted(Tail(pairs))

\* Longest list of Pair Snapshots handed to the scorer
MaxPairs == 3

\* Largest `limit` the model draws
MaxTop == 3

\* The Pair Snapshots the scorer is tried on: a factor of exactly 2.3, of
\* 2.31, no metric at all, 2.0 reached twice, 4.0 as 1/0.25 and as 4.0,
\* ratios of zero and below and one that is no number, a balanced ratio
\* beside a negative one
ScorePairs ==
    { Snapshot("A", Metric(230), Absent, Absent),
      Snapshot("B", Metric(100), Metric(231), Absent),
      Snapshot("C", Absent, Absent, Absent),
      Snapshot("D", Metric(100), Metric(50), Metric(200)),
      Snapshot("E", Metric(25), Absent, Metric(300)),
      Snapshot("F", Absent, Metric(400), Absent),
      Snapshot("G", Metric(0), Metric(-50), NoRatio),
      Snapshot("H", NoRatio, Metric(100), Metric(-300)) }

ScoreInit ==
    /\ ReqIdle
    /\ free_proxies = <<>>
    /\ LoadIdle
    /\ SelIdle
    /\ ColIdle
    /\ MainIdle
    /\ FindIdle
    /\ ReadIdle
    /\ metrics \in SeqsUpTo(ScorePairs, MaxPairs)
    /\ limit_top \in 0..MaxTop
    /\ spc = "collected"
    /\ sorted_pairs = <<>>
    /\ top_pairs = <<>>
    /\ imbalanced = <<>>

\* find_top_imbalances, lines 52-54: sort, filter, return
Score ==
    /\ spc = "collected"
    /\ sorted_pairs' = SortedByImbalance(metrics)
    /\ imbalanced' = Highlighted(SortedByImbalance(metrics))
    /\ top_pairs' = Take(SortedByImbalance(metrics), limit_top)
    /\ spc' = "scored"
    /\ UNCHANGED <<metrics, limit_top>>
    /\ UNCHANGED scoreRest

ScoreNext == Score

SpecScore == ScoreInit /\ [][ScoreNext]_vars

----------------------------------------------------------------------------
\* Claims about the scorer

\* Number of places of s that hold x
Count(s, x) == Cardinality({i \in 1..Len(s) : s[i] = x})

\* The factor of a pair is strictly above 2.3, by its fraction
Above23(item) == PairMaxImbalance(item)[1] * 10 > 23 * PairMaxImbalance(item)[2]

\* C7: the scorer produces the full list sorted in non-increasing order of
\* per-pair max Imbalance Factor (sorted_pairs, of which it returns the first
\* `limit`), and the highlighted list is exactly the pairs of it whose factor
\* is strictly greater than 2.3, in the same order; a pair at exactly 2.3 is
\* not highlighted, one at 2.31 is.
C7_SortedAndHighlighted ==
    spc = "scored" =>
        /\ Len(sorted_pairs) = Len(metrics)
        /\ \A x \in ScorePairs : Count(sorted_pairs, x) = Count(metrics, x)
        /\ \A i, j \in 1..Len(sorted_pairs) :
              i < j => FracGE(PairMaxImbalance(sorted_pairs[i]),
                              PairMaxImbalance(sorted_pairs[j]))
        /\ Len(imbalanced) = Cardinality({i \in 1..Len(sorted_pairs) : Above23(sorted_pairs[i])})
        /\ \A i \in 1..Len(imbalanced) :
              imbalanced[i] = sorted_pairs[i] /\ Above23(imbalanced[i])
        /\ \A i \in (Len(imbalanced) + 1)..Len(sorted_pairs) : ~Above23(sorted_pairs[i])
        /\ \A x \in Range(metrics) :
              /\ (x.accounts = Metric(230) /\ x.positions = Absent /\ x.global = Absent)
                    => x \notin Range(imbalanced)
              /\ x.positions = Metric(231) => x \in Range(imbalanced)
        /\ top_pairs = SubSeq(sorted_pairs, 1, Min2(limit_top, Len(sorted_pairs)))

\* C7 witness: a list with a pair at exactly 2.3 given before one at 2.31 and
\* one at 4.0: the last two are highlighted, the first is not
C7_Witness ==
    /\ spc = "scored"
    /\ Len(metrics) = 3
    /\ metrics[1].symbol = "A"
    /\ metrics[2].symbol = "B"
    /\ metrics[3].symbol = "E"
    /\ Len(imbalanced) = 2
    /\ sorted_pairs[3].symbol = "A"

----------------------------------------------------------------------------
\* The symbol selector: list_usdt_perpetual_symbols, all_24h_tickers,
\* list_top_volume_usdt_perpetual and lines 21-43 of find_top_imbalances
\*
\* The ticker at place i of the snapshot is that of TickerSymbols[i] (symbols
\* are names only, and a snapshot names a symbol once).  A quoteVolume is
\* [kind, v]: "num" a number v, "bad" a value float() rejects, "absent" no
\* such key.  price_ok tells whether lastPrice and priceChangePercent parse
\* (drawn only where the volume is a number: the prices are parsed after it).

TickerSymbols == <<"A", "B", "C", "D">>

\* Longest ticker snapshot
MaxTickers == 3

\* Largest candidate count
MaxCandidates == 2

\* 24h quote volumes of the tickers
VolPool == {500, 1000, 1500}

\* Ceilings --max-quote-volume is tried with
CeilingPool == {1000}

Volumes ==
    [kind : {"num"}, v : VolPool] \cup {[kind |-> "bad", v |-> 0], [kind |-> "absent", v |-> 0]}

Listing(symbol, contractType, quoteAsset, status) ==
    [symbol |-> symbol, contractType |-> contractType, quoteAsset |-> quoteAsset,
     status |-> status]

Perp(symbol) == Listing(symbol, "PERPETUAL", "USDT", "TRADING")

\* exchangeInfo listings: everything tradable; a dated contract and another
\* quote asset among them; a contract that is settling and symbols not listed
ExchangeInfos ==
    { <<Perp("A"), Perp("B"), Perp("C"), Perp("D")>>,
      <<Perp("A"), Listing("B", "CURRENT_QUARTER", "USDT", "TRADING"), Perp("C"),
        Listing("D", "PERPETUAL", "BUSD", "TRADING")>>,
      <<Listing("C", "PERPETUAL", "USDT", "SETTLING"), Perp("B")>> }

RECURSIVE ListUsdtPerpetualSymbols(_)
\* list_usdt_perpetual_symbols: PERPETUAL, USDT, TRADING
ListUsdtPerpetualSymbols(items) ==
    IF items = <<>> THEN <<>>
    ELSE LET item == Head(items)
         IN  IF item.contractType # "PERPETUAL" THEN ListUsdtPerpetualSymbols(Tail(items))
             ELSE IF item.quoteAsset # "USDT" THEN ListUsdtPerpetualSymbols(Tail(items))
             ELSE IF item.status # "TRADING" THEN ListUsdtPerpetualSymbols(Tail(items))
             ELSE <<item.symbol>> \o ListUsdtPerpetualSymbols(Tail(items))

\* float(t.get("quoteVolume", 0.0)) raises
VolumeRaises(t) == t.volume.kind = "bad"

\* float(t.get("quoteVolume", 0.0)) when it does not raise
VolumeOf(t) == IF t.volume.kind = "num" THEN t.volume.v ELSE 0

\* vol > max_quote_volume, with a ceiling given
AboveCeiling(vol, ceiling) == ceiling # <<>> /\ vol > ceiling[1]

RECURSIVE ScoredOf(_, _, _)
\* The loop over the tickers (lines 283-291; lines 25-40 of find_top_imbalances):
\* (symbol, vol) of every allowed ticker whose volume parses and is not
\* above the ceiling
ScoredOf(ts, allowed, ceiling) ==
    IF ts = <<>> THEN <<>>
    ELSE LET t == Head(ts)
             rest == ScoredOf(Tail(ts), allowed, ceiling)
         IN  IF t.symbol \notin allowed THEN rest
             ELSE IF VolumeRaises(t) THEN rest
             ELSE IF AboveCeiling(VolumeOf(t), ceiling) THEN rest
             ELSE <<[symbol |-> t.symbol, vol |-> VolumeOf(t)]>> \o rest

\* ticker_map: filled after scored.append, unless the prices do not parse
TickerMapOf(ts, allowed, ceiling) ==
    {ts[i].symbol : i \in {j \in 1..Len(ts) :
        /\ ts[j].symbol \in allowed
        /\ ~VolumeRaises(ts[j])
        /\ ~AboveCeiling(VolumeOf(ts[j]), ceiling)
        /\ ts[j].price_ok}}

RECURSIVE InsertByVolumeAsc(_, _)
\* Mutant: ascending order
InsertByVolumeAsc(s, x) ==
    IF s = <<>> THEN <<x>>
    ELSE IF Head(s).vol <= x.vol THEN <<Head(s)>> \o InsertByVolumeAsc(Tail(s), x)
    ELSE <<x>> \o s

RECURSIVE InsertByVolume(_, _)
\* x put behind every entry whose volume is at least its own
InsertByVolume(s, x) ==
    IF s = <<>> THEN <<x>>
    ELSE IF Head(s).vol >= x.vol THEN <<Head(s)>> \o InsertByVolume(Tail(s), x)
    ELSE <<x>> \o s

RECURSIVE SortedByVolume(_)
\* scored.sort(key=lambda x: x[1], reverse=True): descending and stable
SortedByVolume(s) ==
    IF s = <<>> THEN <<>>
    ELSE InsertByVolume(SortedByVolume(SubSeq(s, 1, Len(s) - 1)), s[Len(s)])

\* [s for s, _ in scored[:limit]]
SymbolsOf(s, n) == [i \in 1..Min2(Len(s), n) |-> s[i].symbol]

SelInit ==
    /\ ReqIdle
    /\ free_proxies = <<>>
    /\ LoadIdle
    /\ ScoreIdle
    /\ ColIdle
    /\ MainIdle
    /\ FindIdle
    /\ ReadIdle
    /\ exchange_info \in ExchangeInfos
    /\ \E n \in 0..MaxTickers :
          tickers \in {ts \in [1..n -> [symbol : Range(TickerSymbols), volume : Volumes,
                                        price_ok : BOOLEAN]] :
                          \A i \in 1..n :
                              /\ ts[i].symbol = TickerSymbols[i]
                              /\ (ts[i].volume.kind # "num" => ts[i].price_ok)}
    /\ candidates \in 0..MaxCandidates
    /\ max_quote_volume \in {<<>>} \cup {<<c>> : c \in CeilingPool}
    /\ sel_pc = "ready"
    /\ scored = <<>>
    /\ ticker_map = {}
    /\ selected = <<>>

\* list_top_volume_usdt_perpetual(limit)
ListTopVolumeUsdtPerpetual ==
    /\ sel_pc = "ready"
    /\ LET allowed == Range(ListUsdtPerpetualSymbols(exchange_info))
       IN  /\ scored' = SortedByVolume(ScoredOf(tickers, allowed, <<>>))
           /\ selected' = SymbolsOf(SortedByVolume(ScoredOf(tickers, allowed, <<>>)), candidates)
    /\ sel_pc' = "list_top_volume_usdt_perpetual"
    /\ UNCHANGED <<exchange_info, tickers, candidates, max_quote_volume, ticker_map>>
    /\ UNCHANGED selRest

\* find_top_imbalances up to `symbols` (lines 21-43)
SelectCandidates ==
    /\ sel_pc = "ready"
    /\ LET allowed == Range(ListUsdtPerpetualSymbols(exchange_info))
       IN  /\ scored' = SortedByVolume(ScoredOf(tickers, allowed, max_quote_volume))
           /\ ticker_map' = TickerMapOf(tickers, allowed, max_quote_volume)
           /\ selected' = SymbolsOf(SortedByVolume(ScoredOf(tickers, allowed, max_quote_volume)),
                                    candidates)
    /\ sel_pc' = "find_top_imbalances"
    /\ UNCHANGED <<exchange_info, tickers, candidates, max_quote_volume>>
    /\ UNCHANGED selRest

\* The exchangeInfo or the ticker request raises: so does the selector
SelectorRequestRaises ==
    /\ sel_pc = "ready"
    /\ sel_pc' = "raised"
    /\ UNCHANGED <<exchange_info, tickers, candidates, max_quote_volume, scored,
                   ticker_map, selected>>
    /\ UNCHANGED selRest

SelNext ==
    \/ ListTopVolumeUsdtPerpetual
    \/ SelectCandidates
    \/ SelectorRequestRaises

SpecSelect == SelInit /\ [][SelNext]_vars

----------------------------------------------------------------------------
\* Claims about the symbol selector

\* The perpetual/USDT/TRADING set of the exchange listing
Tradable ==
    {exchange_info[i].symbol : i \in {j \in 1..Len(exchange_info) :
        /\ exchange_info[j].contractType = "PERPETUAL"
        /\ exchange_info[j].quoteAsset = "USDT"
        /\ exchange_info[j].status = "TRADING"}}

\* Place of a symbol in the ticker snapshot
TickerOf(symbol) == CHOOSE i \in 1..Len(tickers) : tickers[i].symbol = symbol

\* 24h quote volume of the ticker at place i (0 when the ticker has none)
Vol(i) == IF tickers[i].volume.kind = "num" THEN tickers[i].volume.v ELSE 0

\* The tickers that can be selected: tradable, volume numeric, not above the ceiling
Eligible(ceiling) ==
    {i \in 1..Len(tickers) :
        /\ tickers[i].symbol \in Tradable
        /\ tickers[i].volume.kind # "bad"
        /\ (ceiling = <<>> \/ Vol(i) <= ceiling[1])}

\* Ticker i comes before ticker j: more volume, or as much and earlier in the snapshot
Before(i, j) == Vol(i) > Vol(j) \/ (Vol(i) = Vol(j) /\ i < j)

\* `selected` is the first `candidates` of the eligible tickers in that order
SelectionIsTopByVolume(ceiling) ==
    /\ Len(selected) = Min2(candidates, Cardinality(Eligible(ceiling)))
    /\ \A k \in 1..Len(selected) :
          \E i \in Eligible(ceiling) : tickers[i].symbol = selected[k]
    /\ \A k, l \in 1..Len(selected) :
          k < l => Before(TickerOf(selected[k]), TickerOf(selected[l]))
    /\ \A i \in Eligible(ceiling) :
          tickers[i].symbol \notin Range(selected) =>
              \A k \in 1..Len(selected) : Before(TickerOf(selected[k]), i)
    /\ \A i \in 1..Len(tickers) :
          tickers[i].volume.kind = "bad" => tickers[i].symbol \notin Range(selected)

\* C8: the selector returns the symbols of the perpetual/USDT/TRADING set in
\* descending order of 24h quote volume, ties in ticker-snapshot order, cut to
\* the candidate count; a ticker whose volume is not numeric is skipped and the
\* call still succeeds.  (find_top_imbalances, given a ceiling, selects so
\* among the tickers not above it.)
C8_TopByVolume ==
    /\ sel_pc = "list_top_volume_usdt_perpetual" => SelectionIsTopByVolume(<<>>)
    /\ sel_pc = "find_top_imbalances" => SelectionIsTopByVolume(max_quote_volume)

\* C8 witness: tickers A=500, B=1500, C=1000, all tradable, two candidates
\* asked for: [B, C]
C8_Witness ==
    /\ sel_pc = "list_top_volume_usdt_perpetual"
    /\ Len(tickers) = 3
    /\ tickers[1].volume = [kind |-> "num", v |-> 500]
    /\ tickers[2].volume = [kind |-> "num", v |-> 1500]
    /\ tickers[3].volume = [kind |-> "num", v |-> 1000]
    /\ {"A", "B", "C"} \subseteq Tradable
    /\ candidates = 2
    /\ selected = <<"B", "C">>

\* A ticker with a non-numeric volume was skipped and the others selected
C8_SkippedWitness ==
    /\ sel_pc = "find_top_imbalances"
    /\ Len(tickers) = 3
    /\ tickers[1].volume.kind = "bad"
    /\ "A" \in Tradable
    /\ Len(selected) = 2

----------------------------------------------------------------------------
\* main.py: collect_metrics
\*
\* The three client calls of a symbol (top_trader_accounts,
\* top_trader_positions, global_long_short) each return a Parsed Metric or
\* raise; what they do inside is the business of _request and _parse_record.

\* Symbols of the configured pairs
PairSymbols == {"A", "B"}

\* Longest list of symbols
MaxSymbols == 2

\* Metrics the client calls return: balanced (1.00) and skewed (3.00)
MetricPool == {Metric(100), Metric(300)}

\* Exceptions the client calls raise
CallErrors == {"RuntimeError"}

\* The client with nothing under way
ClientIdle == ReqIdle /\ free_proxies = <<>> /\ LoadIdle

CollectInit ==
    /\ ClientIdle
    /\ ScoreIdle
    /\ SelIdle
    /\ MainIdle
    /\ FindIdle
    /\ ReadIdle
    /\ symbols \in SeqsUpTo(PairSymbols, MaxSymbols)
    /\ progress_given \in BOOLEAN
    /\ cpc = "ready"
    /\ idx = 0
    /\ calls = <<>>
    /\ results = <<>>
    /\ errors = <<>>
    /\ fetched = <<>>
    /\ progress_log = <<>>
    /\ collect_raised = FALSE

\* progress(idx, total, symbol, is_error), when a callback was given
Progressed(log, is_error) ==
    IF progress_given
    THEN Append(log, [idx |-> idx, total |-> Len(symbols), symbol |-> symbols[idx],
                      is_error |-> is_error])
    ELSE log

\* collect_metrics is entered (lines 19-21)
CollectMetrics ==
    /\ cpc = "ready"
    /\ cpc' = "loop"
    /\ idx' = 1
    /\ calls' = <<>>
    /\ results' = <<>>
    /\ errors' = <<>>
    /\ UNCHANGED <<symbols, progress_given, fetched, progress_log, collect_raised>>
    /\ UNCHANGED mainVars
    /\ UNCHANGED colRest

\* The next client call of the current symbol returns a metric; after the
\* third one the snapshot is appended (lines 24-36)
MetricCallReturns(metric) ==
    /\ cpc = "loop"
    /\ idx <= Len(symbols)
    /\ IF Len(calls) < 2
       THEN /\ calls' = Append(calls, metric)
            /\ UNCHANGED <<idx, results, fetched, progress_log>>
       ELSE /\ results' = Append(results, Snapshot(symbols[idx], calls[1], calls[2], metric))
            /\ fetched' = Append(fetched, <<"ok", "ok", "ok">>)
            /\ progress_log' = Progressed(progress_log, FALSE)
            /\ calls' = <<>>
            /\ idx' = idx + 1
    /\ UNCHANGED <<symbols, progress_given, cpc, errors, collect_raised>>
    /\ UNCHANGED mainVars
    /\ UNCHANGED colRest

\* Mutant: no handler around the client calls; the exception leaves collect_metrics
MetricCallRaisesUncaught(exc) ==
    /\ cpc = "loop"
    /\ idx <= Len(symbols)
    /\ fetched' = Append(fetched, [i \in 1..Len(calls) |-> "ok"] \o <<"fail">>)
    /\ collect_raised' = TRUE
    /\ cpc' = "raised"
    /\ UNCHANGED <<symbols, progress_given, idx, calls, results, errors, progress_log>>
    /\ UNCHANGED mainVars
    /\ UNCHANGED colRest

\* Mutant: the metrics fetched before the failure are kept as a partial snapshot
MetricCallRaisesKeepsPartial(exc) ==
    /\ cpc = "loop"
    /\ idx <= Len(symbols)
    /\ results' = Append(results,
                         Snapshot(symbols[idx],
                                  IF Len(calls) >= 1 THEN calls[1] ELSE Absent,
                                  IF Len(calls) >= 2 THEN calls[2] ELSE Absent,
                                  Absent))
    /\ errors' = Append(errors, [symbol |-> symbols[idx], exc |-> exc])
    /\ fetched' = Append(fetched, [i \in 1..Len(calls) |-> "ok"] \o <<"fail">>)
    /\ progress_log' = Progressed(progress_log, TRUE)
    /\ calls' = <<>>
    /\ idx' = idx + 1
    /\ UNCHANGED <<symbols, progress_given, cpc, collect_raised>>
    /\ UNCHANGED mainVars
    /\ UNCHANGED colRest

\* The next client call of the current symbol raises: the handler records
\* f"{symbol}: {exc}" and the loop goes to the next symbol (lines 37-40)
MetricCallRaises(exc) ==
    /\ cpc = "loop"
    /\ idx <= Len(symbols)
    /\ errors' = Append(errors, [symbol |-> symbols[idx], exc |-> exc])
    /\ fetched' = Append(fetched, [i \in 1..Len(calls) |-> "ok"] \o <<"fail">>)
    /\ progress_log' = Progressed(progress_log, TRUE)
    /\ calls' = <<>>
    /\ idx' = idx + 1
    /\ UNCHANGED <<symbols, progress_given, cpc, results, collect_raised>>
    /\ UNCHANGED mainVars
    /\ UNCHANGED colRest

\* return results, errors (line 41)
CollectReturns ==
    /\ cpc = "loop"
    /\ idx > Len(symbols)
    /\ cpc' = "returned"
    /\ UNCHANGED <<symbols, progress_given, idx, calls, results, errors, fetched,
                   progress_log, collect_raised>>
    /\ UNCHANGED mainVars
    /\ UNCHANGED colRest

CollectNext ==
    \/ CollectMetrics
    \/ \E metric \in MetricPool : MetricCallReturns(metric)
    \/ \E exc \in CallErrors : MetricCallRaises(exc)
    \/ CollectReturns

SpecCollect == CollectInit /\ [][CollectNext]_vars

----------------------------------------------------------------------------
\* main.py: main

\* Mutant: any symbol error is fatal
AnyFailed(res, errs) == res = <<>> \/ errs # <<>>

\* if not metrics: raise RuntimeError("All symbol requests failed ...")
AllFailed(res, errs) == res = <<>>

\* Mutant: the warnings are left out of the report
BuildMessageWithoutWarnings(pairs, errs) ==
    [pairs |-> SortedByImbalance(pairs), warnings |-> <<>>]

\* report.build_message, as the content of the text: the pair sections in
\* the order they are rendered, then the warnings (errors may be None: <<>>)
BuildMessage(pairs, errs) ==
    [pairs |-> SortedByImbalance(pairs), warnings |-> errs]

MainInit ==
    /\ ClientIdle
    /\ ScoreIdle
    /\ SelIdle
    /\ ColIdle
    /\ FindIdle
    /\ ReadIdle
    /\ mpc = "start"
    /\ exit_code = 0
    /\ sent = <<>>
    /\ send_raised = FALSE

\* load_settings raises (pairs, chat id or token missing): exit 1
LoadSettingsRaises ==
    /\ mpc = "start"
    /\ mpc' = "exited"
    /\ exit_code' = 1
    /\ UNCHANGED <<sent, send_raised>>
    /\ UNCHANGED colVars
    /\ UNCHANGED colRest

\* load_settings returns the non-empty pairs; main calls collect_metrics
\* without a progress callback (lines 46-48)
LoadSettings(pairs) ==
    /\ mpc = "start"
    /\ pairs # <<>>
    /\ mpc' = "collecting"
    /\ symbols' = pairs
    /\ progress_given' = FALSE
    /\ cpc' = "ready"
    /\ UNCHANGED <<idx, calls, results, errors, fetched, progress_log, collect_raised>>
    /\ UNCHANGED <<exit_code, sent, send_raised>>
    /\ UNCHANGED colRest

\* No metrics: RuntimeError, caught at line 58, exit 1 (lines 49-50, 58-60)
MainAllFailed ==
    /\ mpc = "collecting"
    /\ cpc = "returned"
    /\ AllFailed(results, errors)
    /\ mpc' = "exited"
    /\ exit_code' = 1
    /\ UNCHANGED <<sent, send_raised>>
    /\ UNCHANGED colVars
    /\ UNCHANGED colRest

\* Mutant: a send_message that raised is tried again
MainSendsRetries(delivered) ==
    /\ mpc = "collecting"
    /\ cpc = "returned"
    /\ ~AllFailed(results, errors)
    /\ sent' = Append(sent, BuildMessage(results, errors))
    /\ send_raised' = ~delivered
    /\ mpc' = IF delivered THEN "exited" ELSE "collecting"
    /\ exit_code' = 0
    /\ UNCHANGED colVars
    /\ UNCHANGED colRest

\* The report is built and passed to send_message once; send_message returns,
\* or raises (HTTP error status, or "ok" false in the reply: telegram_client.py,
\* lines 23-27) and the handler of line 58 exits with status 1 (lines 51-60)
MainSends(delivered) ==
    /\ mpc = "collecting"
    /\ cpc = "returned"
    /\ ~AllFailed(results, errors)
    /\ sent' = Append(sent, BuildMessage(results, errors))
    /\ send_raised' = ~delivered
    /\ mpc' = "exited"
    /\ exit_code' = IF delivered THEN 0 ELSE 1
    /\ UNCHANGED colVars
    /\ UNCHANGED colRest

MainNext ==
    \/ LoadSettingsRaises
    \/ \E pairs \in SeqsUpTo(PairSymbols, MaxSymbols) : LoadSettings(pairs)
    \/ CollectMetrics
    \/ \E metric \in MetricPool : MetricCallReturns(metric)
    \/ \E exc \in CallErrors : MetricCallRaises(exc)
    \/ CollectReturns
    \/ MainAllFailed
    \/ \E delivered \in BOOLEAN : MainSends(delivered)

SpecMain == MainInit /\ [][MainNext]_vars

----------------------------------------------------------------------------
\* Claims about collect_metrics and main

\* All three client calls of a symbol returned
AllOk(outcome) == outcome = <<"ok", "ok", "ok">>

RECURSIVE SymbolsWhere(_, _, _)
\* The symbols, in input order, whose calls all returned (ok) or not (~ok)
SymbolsWhere(syms, outcomes, ok) ==
    IF syms = <<>> \/ outcomes = <<>> THEN <<>>
    ELSE (IF AllOk(Head(outcomes)) = ok THEN <<Head(syms)>> ELSE <<>>)
         \o SymbolsWhere(Tail(syms), Tail(outcomes), ok)

\* C4: collect_metrics never raises and goes on after a failing symbol: every
\* symbol gone through has exactly one outcome, a Pair Snapshot or an error
\* labelled with it; on return len(results) + len(errors) = len(symbols), and
\* both lists are in the input order of the symbols.
C4_OneOutcomePerSymbol ==
    /\ ~collect_raised
    /\ cpc # "raised"
    /\ cpc \in {"loop", "returned"} =>
          /\ Len(results) + Len(errors) = Len(fetched)
          /\ Len(fetched) = idx - 1
          /\ [i \in 1..Len(results) |-> results[i].symbol] = SymbolsWhere(symbols, fetched, TRUE)
          /\ [i \in 1..Len(errors) |-> errors[i].symbol] = SymbolsWhere(symbols, fetched, FALSE)
    /\ cpc = "returned" => Len(results) + Len(errors) = Len(symbols)

\* C4 witness: two symbols, the first throws, the second succeeds: one
\* snapshot and one error
C4_Witness ==
    /\ cpc = "returned"
    /\ Len(symbols) = 2
    /\ ~AllOk(fetched[1])
    /\ AllOk(fetched[2])
    /\ Len(results) = 1
    /\ Len(errors) = 1
    /\ errors[1].symbol = symbols[1]
    /\ results[1].symbol = symbols[2]

\* C5 as stated: when some of the three calls of a symbol succeeded and one
\* failed, a partially populated Pair Snapshot of the symbol holds the metrics
\* that succeeded.
C5_PartialDataRetained ==
    \A i \in 1..Len(fetched) :
        ("ok" \in Range(fetched[i]) /\ "fail" \in Range(fetched[i])) =>
            \E k \in 1..Len(results) :
                /\ results[k].symbol = symbols[i]
                /\ results[k].accounts # Absent
                /\ results[k].global = Absent

\* C5 amended: a symbol with a failed call gets no Pair Snapshot at all: the
\* failure is the last call made for it (the metrics fetched before are
\* dropped, the calls after it are not made), it is recorded as one error,
\* and every Pair Snapshot in results holds all three metrics.
C5_FailedSymbolDiscarded ==
    /\ \A k \in 1..Len(results) :
          /\ results[k].accounts \in MetricPool
          /\ results[k].positions \in MetricPool
          /\ results[k].global \in MetricPool
    /\ \A i \in 1..Len(fetched) :
          "fail" \in Range(fetched[i]) =>
              /\ fetched[i][Len(fetched[i])] = "fail"
              /\ \A n \in 1..(Len(fetched[i]) - 1) : fetched[i][n] = "ok"
    /\ Len(results) = Cardinality({i \in 1..Len(fetched) : AllOk(fetched[i])})
    /\ Len(errors) = Cardinality({i \in 1..Len(fetched) : ~AllOk(fetched[i])})

\* C5 witness: accounts and positions of the first symbol were fetched, its
\* global call failed; the second symbol succeeded: one snapshot, of the second
C5_Witness ==
    /\ cpc = "returned"
    /\ Len(symbols) = 2
    /\ symbols[1] # symbols[2]
    /\ fetched[1] = <<"ok", "ok", "fail">>
    /\ AllOk(fetched[2])
    /\ Len(results) = 1
    /\ results[1].symbol = symbols[2]
    /\ Len(errors) = 1

\* C6: main sends a notification if and only if collection yielded a Pair
\* Snapshot: with none it exits non-zero and send_message is never called;
\* with at least one, even beside symbol errors, send_message is called
\* exactly once, with the report of the snapshots whose warnings are the error
\* strings.
C6_SendIffSomeSnapshot ==
    /\ Len(sent) <= 1
    /\ sent # <<>> => mpc = "exited"
    /\ mpc = "exited" =>
          /\ (Len(sent) = 1) <=> (cpc = "returned" /\ results # <<>>)
          /\ (sent = <<>>) => exit_code = 1
          /\ sent # <<>> =>
                /\ sent[1].warnings = errors
                /\ Len(sent[1].pairs) = Len(results)
                /\ Range(sent[1].pairs) = Range(results)
                /\ \A i, j \in 1..Len(sent[1].pairs) :
                      i < j => FracGE(PairMaxImbalance(sent[1].pairs[i]),
                                      PairMaxImbalance(sent[1].pairs[j]))

\* C6 witness: one symbol failed, one succeeded, and the report went out with
\* the error as its warning
C6_Witness ==
    /\ mpc = "exited"
    /\ exit_code = 0
    /\ Len(results) = 1
    /\ Len(errors) = 1
    /\ Len(sent) = 1
    /\ sent[1].warnings = errors

\* Nothing collected: exit 1 and nothing sent
C6_FatalWitness ==
    /\ mpc = "exited"
    /\ cpc = "returned"
    /\ results = <<>>
    /\ Len(errors) = 2
    /\ exit_code = 1
    /\ sent = <<>>

----------------------------------------------------------------------------
\* find_imbalanced.py: find_top_imbalances and main
\*
\* market[s] is the Pair Snapshot the three ratio endpoints serve for symbol
\* s.  A message of this run is the content of build_message plus `part`:
\* <<>> for a first line without suffix, <<i, N>> for "(part i/N)".

\* batch_size = 10
batch_size == 10

\* A symbol whose three ratios are 1.00
Balanced(symbol) == Snapshot(symbol, Metric(100), Metric(100), Metric(100))

\* A symbol whose ratios are 1.00, 3.00 and 0.40
Skewed(symbol) == Snapshot(symbol, Metric(100), Metric(300), Metric(40))

\* What the ratio endpoints serve: nothing skewed, A alone skewed, all skewed
Markets ==
    { [s \in Range(TickerSymbols) |-> Balanced(s)],
      [s \in Range(TickerSymbols) |-> IF s = "A" THEN Skewed(s) ELSE Balanced(s)],
      [s \in Range(TickerSymbols) |-> Skewed(s)] }

\* [imbalanced_pairs[i : i + batch_size] for i in range(0, len(...), batch_size)]
Batches(pairs) ==
    [b \in 1..((Len(pairs) + batch_size - 1) \div batch_size) |->
        SubSeq(pairs, (b - 1) * batch_size + 1, Min2(b * batch_size, Len(pairs)))]

\* build_message(run_dt, batch, errors=None), its first line suffixed with
\* "(part idx/total_parts)" when total_parts > 1 (lines 117-122)
PartMessage(batch, i, total_parts) ==
    [pairs |-> BuildMessage(batch, <<>>).pairs,
     warnings |-> BuildMessage(batch, <<>>).warnings,
     part |-> IF total_parts > 1 THEN <<i, total_parts>> ELSE <<>>]

\* f"No symbols exceed {HIGHLIGHT_THRESHOLD:.1f}x among top {args.candidates} by volume"
NoSymbolsExceed == "No symbols exceed 2.3x among top candidates by volume"

\* build_message(run_dt, [], errors=warn) (lines 105-106)
WarningMessage ==
    [pairs |-> BuildMessage(<<>>, <<NoSymbolsExceed>>).pairs,
     warnings |-> BuildMessage(<<>>, <<NoSymbolsExceed>>).warnings,
     part |-> <<>>]

\* main has parsed its arguments, built the client and called
\* find_top_imbalances (lines 70-92)
FindInit ==
    /\ ClientIdle
    /\ ColIdle
    /\ MainIdle
    /\ metrics = <<>>
    /\ limit_top \in {1, MaxTop}
    /\ spc = "idle"
    /\ sorted_pairs = <<>>
    /\ top_pairs = <<>>
    /\ imbalanced = <<>>
    /\ exchange_info \in ExchangeInfos
    /\ \E n \in 0..MaxTickers :
          tickers \in {ts \in [1..n -> [symbol : Range(TickerSymbols), volume : Volumes,
                                        price_ok : {TRUE}]] :
                          \A i \in 1..n : ts[i].symbol = TickerSymbols[i]}
    /\ candidates \in 0..MaxCandidates
    /\ max_quote_volume \in {<<>>} \cup {<<c>> : c \in CeilingPool}
    /\ sel_pc = "ready"
    /\ scored = <<>>
    /\ ticker_map = {}
    /\ selected = <<>>
    /\ fpc = "find_top_imbalances"
    /\ find_error = None
    /\ market \in Markets
    /\ ReadIdle

\* The exception of the listing or ticker request leaves find_top_imbalances
\* and main, which has no handler: the process ends with status 1
FindRequestErrorEscapes ==
    /\ fpc = "find_top_imbalances"
    /\ sel_pc = "raised"
    /\ fpc' = "exited"
    /\ find_error' = "RequestError"
    /\ exit_code' = 1
    /\ UNCHANGED <<mpc, sent, send_raised, market>>
    /\ UNCHANGED <<clientVars, scoreVars, selVars, colVars, readVars>>

\* Line 51: collect_metrics(client, symbols, progress=_progress,
\* ticker_map=ticker_map).  collect_metrics (main.py, lines 16-18) has the
\* parameters client, symbols and progress only: the call raises TypeError
\* before the body of collect_metrics runs, nothing in find_top_imbalances
\* or main catches it, and the process ends with status 1.
CollectCallRejected ==
    /\ fpc = "find_top_imbalances"
    /\ sel_pc = "find_top_imbalances"
    /\ fpc' = "exited"
    /\ find_error' = "TypeError"
    /\ exit_code' = 1
    /\ UNCHANGED <<mpc, sent, send_raised, market>>
    /\ UNCHANGED <<clientVars, scoreVars, selVars, colVars, readVars>>

FindNext ==
    \/ SelectCandidates
    \/ SelectorRequestRaises
    \/ FindRequestErrorEscapes
    \/ CollectCallRejected

SpecFind == FindInit /\ [][FindNext]_vars

----------------------------------------------------------------------------
\* Claims about the find-imbalanced run

\* The Pair Snapshots of the scanned candidates, as the endpoints serve them
ScannedPairs == [i \in 1..Len(selected) |-> market[selected[i]]]

\* The pairs of the scanned candidates that exceed the threshold, by
\* descending imbalance
ExceedingPairs == Highlighted(SortedByImbalance(ScannedPairs))

\* find_top_imbalances got past the symbol selection and the run is over
FindRunOver == fpc = "exited" /\ sel_pc = "find_top_imbalances"

RECURSIVE Concat(_)
\* The sequences of ss one after the other
Concat(ss) == IF ss = <<>> THEN <<>> ELSE Head(ss) \o Concat(Tail(ss))

\* C11: when k > 0 pairs exceed the threshold, the find-imbalanced run has
\* sent ceil(k/10) messages, part 1..N in order: every batch holds between 1
\* and 10 pairs, the batches one after the other are the highlighted list,
\* and a message carries the suffix "(part i/N)" if and only if N > 1.
C11_BatchedParts ==
    (FindRunOver /\ Len(ExceedingPairs) > 0) =>
        LET k == Len(ExceedingPairs)
            N == (k + 9) \div 10
        IN  /\ Len(sent) = N
            /\ \A i \in 1..N :
                  /\ Len(sent[i].pairs) \in 1..10
                  /\ sent[i] = PartMessage(Batches(ExceedingPairs)[i], i, N)
                  /\ (sent[i].part # <<>>) <=> (N > 1)
            /\ Concat([i \in 1..N |-> sent[i].pairs]) = ExceedingPairs

----------------------------------------------------------------------------
\* Claims about the notification

----------------------------------------------------------------------------
\* Further claims about _request and the market data reader

\* last_error is the failure of the session.get call the log ends with
LastErrorIsLatest ==
    /\ last_error.base = getLog[Len(getLog)].base
    /\ last_error.proxy = getLog[Len(getLog)].proxy
    /\ ~getLog[Len(getLog)].ok
    /\ last_error.kind \in Failures

\* C13: the error a _request call raises after exhausting every combination
\* is the failure of its most recent attempt: the last attempt (number
\* max_attempts) of the last proxy of the last endpoint in the iteration order
\* of the call, and every failed attempt replaces the error remembered before.
C13_MostRecentFailureRaised ==
    /\ [](pc = "raised" =>
            /\ LastErrorIsLatest
            /\ last_error.base = bases[Len(bases)]
            /\ last_error.proxy = effective_proxies[Len(effective_proxies)]
            /\ last_error.attempt = max_attempts)
    /\ []((pc = "running" /\ getLog # <<>>) => LastErrorIsLatest)
    /\ [][\A kind \in Failures : AttemptFails(kind) => last_error'.kind = kind]_vars

\* C13 witness: a call over two endpoints and a proxy raised; its first
\* attempt failed otherwise and elsewhere than its last one, whose failure is
\* the one raised
C13_Witness ==
    /\ pc = "raised"
    /\ Len(bases) = 2
    /\ Len(effective_proxies) >= 2
    /\ max_attempts = 2
    /\ getLog[1].base # last_error.base
    /\ getLog[1].proxy # last_error.proxy
    /\ last_error.kind = "bad_json"
    /\ last_error.attempt = 2

----------------------------------------------------------------------------
\* Further claims about the scorer

\* Fractions of the same value
FracEq(a, b) == a[1] * b[2] = b[1] * a[2]

\* f is the Imbalance Factor the claim gives metric m
FactorAsClaimed(m, f) ==
    IF m.state = "ratio" /\ m.ratio > 0
    THEN /\ FracGE(f, <<m.ratio, 100>>)
         /\ FracGE(f, <<100, m.ratio>>)
         /\ (FracEq(f, <<m.ratio, 100>>) \/ FracEq(f, <<100, m.ratio>>))
         /\ FracGE(f, <<1, 1>>)
         /\ (m.ratio = 100 => FracEq(f, <<1, 1>>))
    ELSE FracEq(f, <<0, 1>>)

\* The three metrics of a Pair Snapshot
MetricsOfPair(item) == {item.accounts, item.positions, item.global}

\* C14: the Imbalance Factor of a metric with ratio > 0 is max(ratio,
\* 1/ratio), at least 1 and exactly 1 at ratio 1; that of an absent metric,
\* of one without a numeric ratio and of a ratio <= 0 is 0; the imbalance of a
\* Pair Snapshot is the greatest factor of its three metrics, 0 when none of
\* them is present.  Stated of every snapshot the scorer was given and of
\* every one it ranked.
C14_ImbalanceFactor ==
    \A item \in Range(metrics) \cup Range(sorted_pairs) :
        /\ \A m \in MetricsOfPair(item) : FactorAsClaimed(m, ImbalanceValue(m))
        /\ \A m \in MetricsOfPair(item) :
              FracGE(PairMaxImbalance(item), ImbalanceValue(m))
        /\ \E m \in MetricsOfPair(item) :
              FracEq(PairMaxImbalance(item), ImbalanceValue(m))
        /\ MetricsOfPair(item) = {Absent} => FracEq(PairMaxImbalance(item), <<0, 1>>)

\* C14 witness: the scorer ranked a pair whose factor 4.0 comes from the ratio
\* 0.25, one with no metric (factor 0) and one with ratios <= 0 and a ratio
\* that is no number (factor 0)
C14_Witness ==
    /\ spc = "scored"
    /\ Len(sorted_pairs) = 3
    /\ sorted_pairs[1].symbol = "E"
    /\ FracEq(PairMaxImbalance(sorted_pairs[1]), <<4, 1>>)
    /\ {sorted_pairs[2].symbol, sorted_pairs[3].symbol} = {"C", "G"}
    /\ FracEq(PairMaxImbalance(sorted_pairs[3]), <<0, 1>>)

\* The elements of s whose imbalance equals that of x, in the order of s
SameImbalance(s, x) ==
    SelectSeq(s, LAMBDA e : FracEq(PairMaxImbalance(e), PairMaxImbalance(x)))

\* C15: sorting by max imbalance descending is stable (the pairs of one
\* imbalance stand in the sorted list in their input order) and idempotent
\* (the sorted list sorted again is itself), so build_message, which sorts the
\* pairs it is given, keeps the order of the sorted list, of the highlighted
\* list and of every batch of it.
C15_SortStableIdempotent ==
    spc = "scored" =>
        /\ \A x \in Range(metrics) : SameImbalance(sorted_pairs, x) = SameImbalance(metrics, x)
        /\ SortedByImbalance(sorted_pairs) = sorted_pairs
        /\ BuildMessage(sorted_pairs, <<>>).pairs = sorted_pairs
        /\ BuildMessage(imbalanced, <<>>).pairs = imbalanced
        /\ \A b \in 1..Len(Batches(imbalanced)) :
              BuildMessage(Batches(imbalanced)[b], <<>>).pairs = Batches(imbalanced)[b]

\* C15 witness: F and E, both of imbalance 4.0, were given in this order
\* around G (0): they lead the sorted list in the same order
C15_Witness ==
    /\ spc = "scored"
    /\ Len(metrics) = 3
    /\ metrics[1].symbol = "F"
    /\ metrics[2].symbol = "G"
    /\ metrics[3].symbol = "E"
    /\ sorted_pairs[1].symbol = "F"
    /\ sorted_pairs[2].symbol = "E"
    /\ imbalanced = SubSeq(sorted_pairs, 1, 2)

----------------------------------------------------------------------------
\* The market data reader: top_trader_accounts, top_trader_positions and
\* global_long_short, each _parse_record(_get_latest(path, symbol))
\*
\* A Parsed Metric is [ratio, long_pct, short_pct]: the ratio in hundredths,
\* the percentages as exact fractions (floating-point rounding and the
\* timestamp are not modelled).

\* longShortRatio values the endpoint serves, in hundredths
RatioPool == {-300, -100, -50, 0, 50, 100, 300}

RecordPool ==
    {[kind |-> "num", v |-> v] : v \in RatioPool}
        \cup {[kind |-> "bad", v |-> 0], [kind |-> "missing", v |-> 0]}

\* A fraction with its denominator made positive
FracNorm(n, d) == IF d < 0 THEN <<0 - n, 0 - d>> ELSE <<n, d>>

\* long_pct = (ratio / (1 + ratio)) * 100, for ratio # -1
LongPct(v) == FracNorm(100 * v, 100 + v)

\* short_pct = 100 - long_pct
ShortPct(v) == <<100 * LongPct(v)[2] - LongPct(v)[1], LongPct(v)[2]>>

\* The dict _parse_record returns (lines 235-240)
ParsedMetric(v) == [ratio |-> v, long_pct |-> LongPct(v), short_pct |-> ShortPct(v)]

\* float(record["longShortRatio"]) raises KeyError, TypeError or ValueError
RatioRaises(rec) == rec.kind # "num"

\* 1 + ratio is 0: the division of line 225 raises ZeroDivisionError
DivisionRaises(rec) == rec.kind = "num" /\ rec.v = -100

ReaderInit ==
    /\ base_urls \in {BuildBaseUrls(l) : l \in SeqsUpTo(CustomUrls \cup {BASE_URL}, MaxEnvUrls)}
    /\ free_proxies \in {s \in SeqsUpTo(ProxyAddrs, Cardinality(ProxyAddrs)) : NoDup(s)}
    /\ max_attempts \in {MaxAttemptsOf(e) : e \in 0..MaxAttemptsEnv}
    /\ preferred_base = None
    /\ preferred_proxy = None
    /\ pc = "idle"
    /\ bases = <<>>
    /\ effective_proxies = <<>>
    /\ bi = 0
    /\ pi = 0
    /\ attempt = 0
    /\ last_error = NoError
    /\ getLog = <<>>
    /\ returned = None
    /\ LoadIdle
    /\ ScoreIdle
    /\ SelIdle
    /\ ColIdle
    /\ MainIdle
    /\ FindIdle
    /\ rpc = "ready"
    /\ record \in RecordPool
    /\ parsed = <<>>
    /\ reader_error = None

\* _get_latest calls _request (line 212)
GetLatest ==
    /\ rpc = "ready"
    /\ pc = "idle"
    /\ Request

\* _request raised: the error leaves _get_latest and the reader call
RequestErrorPropagates ==
    /\ rpc = "ready"
    /\ pc = "raised"
    /\ rpc' = "raised"
    /\ reader_error' = "RequestError"
    /\ UNCHANGED <<record, parsed>>
    /\ UNCHANGED <<clientVars, scoreVars, selVars, colVars, mainVars, findVars>>

\* if not data: raise ValueError("No data returned ...") (lines 213-214)
GetLatestNoData ==
    /\ rpc = "ready"
    /\ pc = "returned"
    /\ returned = "empty"
    /\ rpc' = "raised"
    /\ reader_error' = "NoData"
    /\ UNCHANGED <<record, parsed>>
    /\ UNCHANGED <<clientVars, scoreVars, selVars, colVars, mainVars, findVars>>

\* record = data[-1] and _parse_record(record) (lines 215-240)
ParseRecord ==
    /\ rpc = "ready"
    /\ pc = "returned"
    /\ returned = "data"
    /\ IF RatioRaises(record)
       THEN /\ rpc' = "raised"
            /\ reader_error' = "InvalidRecord"
            /\ UNCHANGED parsed
       ELSE IF DivisionRaises(record)
       THEN /\ rpc' = "raised"
            /\ reader_error' = "ZeroDivisionError"
            /\ UNCHANGED parsed
       ELSE /\ rpc' = "returned"
            /\ parsed' = <<ParsedMetric(record.v)>>
            /\ UNCHANGED reader_error
    /\ UNCHANGED record
    /\ UNCHANGED <<clientVars, scoreVars, selVars, colVars, mainVars, findVars>>

ReaderNext ==
    \/ GetLatest
    \/ \E body \in Successes : AttemptSucceeds(body)
    \/ \E kind \in Failures : AttemptFails(kind)
    \/ RequestErrorPropagates
    \/ GetLatestNoData
    \/ ParseRecord

SpecReader == ReaderInit /\ [][ReaderNext]_vars

----------------------------------------------------------------------------
\* Claims about the market data reader

\* The _request call returned an empty data set
EmptyReturned == pc = "returned" /\ returned = "empty"

\* C16: an empty result is a symbol-level failure and no retry trigger: an
\* attempt that comes back valid, empty or not, is the last one of its
\* _request call, which returns at once; after an empty return no endpoint,
\* proxy or attempt is tried any more, and the next thing that happens is
\* _get_latest raising its "no data" error, which it raises in no other case.
C16_EmptyResultNotRetried ==
    /\ [](\A n \in 1..Len(getLog) :
            getLog[n].ok => (n = Len(getLog) /\ pc = "returned"))
    /\ [](EmptyReturned =>
            \/ rpc = "ready"
            \/ (rpc = "raised" /\ reader_error = "NoData" /\ parsed = <<>>))
    /\ [](reader_error = "NoData" => EmptyReturned)
    /\ [][EmptyReturned =>
            /\ getLog' = getLog
            /\ EmptyReturned'
            /\ (rpc = "ready" => (rpc' = "raised" /\ reader_error' = "NoData"))]_vars

\* C16 witness: after a failed attempt the next one came back empty although
\* combinations were left to try; the reader call ended with "no data"
C16_Witness ==
    /\ rpc = "raised"
    /\ reader_error = "NoData"
    /\ Len(getLog) = 2
    /\ ~getLog[1].ok
    /\ getLog[2].ok
    /\ Combinations > 2

----------------------------------------------------------------------------
\* Further claims about the proxy directory

\* The place at which address p was first discovered
FirstDiscovery(p) ==
    CHOOSE i \in 1..Len(Discovered(loadGets)) :
        /\ Discovered(loadGets)[i] = p
        /\ \A j \in 1..(i - 1) : Discovered(loadGets)[j] # p

\* C17: the list the proxy directory returns holds no address twice, keeps
\* the addresses in the order of their first discovery across the requested
\* sources, is no longer than limit, and is the first min(limit, n) of the n
\* distinct addresses discovered: an address discovered before a returned one
\* is returned too.
C17_FirstSeenOrderWithinLimit ==
    (lpc = "constructed" /\ use_free_proxies) =>
        LET found == Discovered(loadGets)
        IN  /\ NoDup(free_proxies)
            /\ Range(free_proxies) \subseteq Range(found)
            /\ \A i, j \in 1..Len(free_proxies) :
                  i < j => FirstDiscovery(free_proxies[i]) < FirstDiscovery(free_proxies[j])
            /\ Len(free_proxies) <= limit
            /\ Len(free_proxies) = Min2(limit, Cardinality(Range(found)))
            /\ \A p \in Range(found) : \A q \in Range(free_proxies) :
                  FirstDiscovery(p) < FirstDiscovery(q) => p \in Range(free_proxies)

\* C17 witness: two sources were fetched; the first listed h1 twice, the
\* second h2 and h1 again; with limit 1 the list is h1 alone
C17_Witness ==
    /\ lpc = "constructed"
    /\ use_free_proxies
    /\ limit = 1
    /\ Len(loadGets) = 2
    /\ loadGets[1].ok
    /\ loadGets[2].ok
    /\ Discovered(loadGets) = <<ProxyUrl("h1:80"), ProxyUrl("h1:80"),
                                ProxyUrl("h2:80"), ProxyUrl("h1:80")>>
    /\ free_proxies = <<ProxyUrl("h1:80")>>

\* The list is cut although nothing was listed twice
C17_CutWitness ==
    /\ lpc = "constructed"
    /\ use_free_proxies
    /\ Len(raw_proxies) = 2
    /\ Len(free_proxies) = 1

----------------------------------------------------------------------------
\* Further claims about the market data reader

\* _parse_record was called: _request returned a non-empty data set
ParseCalled == pc = "returned" /\ returned = "data" /\ rpc # "ready"

\* The invariant of a Parsed Metric: ratio > 0, both percentages within
\* 0..100 and adding up to 100
ParsedMetricInvariant(m) ==
    /\ m.ratio > 0
    /\ FracGE(m.long_pct, <<0, 1>>) /\ FracGE(<<100, 1>>, m.long_pct)
    /\ FracGE(m.short_pct, <<0, 1>>) /\ FracGE(<<100, 1>>, m.short_pct)
    /\ FracEq(<<m.long_pct[1] * m.short_pct[2] + m.short_pct[1] * m.long_pct[2],
                m.long_pct[2] * m.short_pct[2]>>, <<100, 1>>)

\* C18: every Parsed Metric _parse_record returns has ratio > 0, long_pct and
\* short_pct within 0..100 and long_pct + short_pct = 100; a record whose
\* ratio is missing, not numeric, zero or negative makes _parse_record fail
\* with the "invalid record" error and return no metric.
C18_ParsedMetricInvariant ==
    /\ \A i \in 1..Len(parsed) : ParsedMetricInvariant(parsed[i])
    /\ (ParseCalled /\ (record.kind # "num" \/ record.v <= 0)) =>
          /\ rpc = "raised"
          /\ reader_error = "InvalidRecord"
          /\ parsed = <<>>

\* What the code does hold to: a metric is returned for every numeric ratio
\* but -1, with short_pct = 100 - long_pct; the "invalid record" error is for
\* a missing or non-numeric ratio only
C18_ParsedAsComputed ==
    ParseCalled =>
        /\ (rpc = "returned") <=> (record.kind = "num" /\ record.v # -100)
        /\ (reader_error = "InvalidRecord") <=> (record.kind # "num")
        /\ (reader_error = "ZeroDivisionError") <=> (record.kind = "num" /\ record.v = -100)
        /\ rpc = "returned" =>
              /\ parsed[1].ratio = record.v
              /\ record.v > 0 => ParsedMetricInvariant(parsed[1])

\* A metric with a negative ratio and percentages outside 0..100 was returned
C18_NegativeRatioParsed ==
    /\ rpc = "returned"
    /\ parsed[1].ratio = -50
    /\ parsed[1].long_pct = <<-5000, 50>>
    /\ parsed[1].short_pct = <<10000, 50>>

----------------------------------------------------------------------------
\* Further claims about the find-imbalanced run

\* C19: in the find-imbalanced run, when data was collected and no pair
\* exceeds the threshold, exactly one message is sent: it has no pair section
\* and says that no symbols exceeded the threshold among the scanned
\* candidates; when no data was collected at all, the run aborts and no
\* message is sent.
C19_NothingExceedsWarning ==
    FindRunOver =>
        /\ (ScannedPairs # <<>> /\ ExceedingPairs = <<>>) =>
              /\ sent = <<WarningMessage>>
              /\ sent[1].pairs = <<>>
              /\ sent[1].warnings = <<NoSymbolsExceed>>
        /\ ScannedPairs = <<>> => (sent = <<>> /\ exit_code # 0)

\* The three ratio metrics fetched for exactly the symbols of s, in its order
CollectedFor(s) ==
    /\ cpc = "returned"
    /\ symbols = s
    /\ Len(fetched) = Len(s)
    /\ Len(results) + Len(errors) = Len(s)

\* C20: find_top_imbalances, when the listing and the ticker calls succeed,
\* completes without raising: collect_metrics accepts its call, the three
\* ratio metrics are collected for exactly the selected symbols in descending
\* volume order, and the triple (the first `limit` pairs by imbalance, the
\* highlighted pairs, the error strings) is returned.
C20_FindTopImbalancesCompletes ==
    FindRunOver =>
        /\ find_error # "TypeError"
        /\ CollectedFor(selected)
        /\ spc = "scored"
        /\ sorted_pairs = SortedByImbalance(results)
        /\ top_pairs = Take(sorted_pairs, limit_top)
        /\ imbalanced = Highlighted(sorted_pairs)

----------------------------------------------------------------------------
\* Claims about the endpoint and the proxy the client remembers

\* The step changes preferred_base or preferred_proxy
PreferredChanges ==
    preferred_base' # preferred_base \/ preferred_proxy' # preferred_proxy

\* The step is a successful attempt of the running call, which returns
SuccessfulAttempt ==
    /\ pc = "running"
    /\ pc' = "returned"
    /\ Len(getLog') = Len(getLog) + 1
    /\ getLog'[Len(getLog')].ok

\* C21: preferred_base and preferred_proxy change only on a successful
\* attempt, to the endpoint and (if any) the proxy of that attempt; a call
\* that raises after exhausting every combination leaves both as they were
\* when it was entered: the values its iteration orders were built from.
C21_FailedCallKeepsPreferred ==
    /\ [][PreferredChanges =>
            /\ SuccessfulAttempt
            /\ preferred_base' = getLog'[Len(getLog')].base
            /\ preferred_proxy' \in {preferred_proxy, getLog'[Len(getLog')].proxy}]_vars
    /\ [][pc' = "raised" => ~PreferredChanges]_vars
    /\ [](pc = "raised" =>
            /\ bases = OrderedBases(preferred_base)
            /\ effective_proxies = EffectiveProxies(preferred_proxy)
            /\ preferred_base # None => bases[1] = preferred_base
            /\ preferred_proxy # None => effective_proxies[1] = preferred_proxy)

\* C21 witness: an earlier call had succeeded at the second endpoint through
\* a proxy; the present call failed everywhere, the remembered endpoint and
\* proxy first, and both are still remembered
C21_Witness ==
    /\ pc = "raised"
    /\ Len(base_urls) >= 2
    /\ preferred_base = base_urls[2]
    /\ preferred_proxy # None
    /\ Len(getLog) = Combinations
    /\ getLog[1].base = preferred_base
    /\ getLog[1].proxy = preferred_proxy
    /\ ~getLog[1].ok

\* The places of the log that hold the first attempt made at an endpoint
FirstAtEndpoint ==
    {n \in 1..Len(getLog) : \A k \in 1..(n - 1) : getLog[k].base # getLog[n].base}

\* C22: a success over the direct option leaves preferred_proxy as it is, and
\* a remembered proxy is never forgotten: once a proxy has succeeded, every
\* later call puts the remembered proxy first and the direct option right
\* after it, and makes its first attempt at each endpoint through that proxy.
C22_DirectSuccessKeepsProxy ==
    /\ [][(SuccessfulAttempt /\ getLog'[Len(getLog')].proxy = None)
            => preferred_proxy' = preferred_proxy]_vars
    /\ [][preferred_proxy # None => preferred_proxy' # None]_vars
    /\ [][(preferred_proxy # None /\ pc # "running" /\ pc' = "running") =>
            /\ effective_proxies'[1] = preferred_proxy
            /\ effective_proxies'[2] = None]_vars
    /\ []((pc \in {"running", "raised"} /\ preferred_proxy # None) =>
            /\ effective_proxies[1] = preferred_proxy
            /\ effective_proxies[2] = None
            /\ \A n \in FirstAtEndpoint : getLog[n].proxy = preferred_proxy)

\* C22 witness: a call entered with a remembered proxy tried it first at two
\* endpoints and then succeeded over the direct option; the proxy is still
\* remembered
C22_Witness ==
    /\ pc = "returned"
    /\ preferred_proxy # None
    /\ getLog[1].proxy = preferred_proxy
    /\ getLog[Len(getLog)].proxy = None
    /\ getLog[Len(getLog)].ok
    /\ Cardinality(FirstAtEndpoint) = 2
    /\ \A n \in FirstAtEndpoint : getLog[n].proxy = preferred_proxy

\* C23: preferred_base is unset or one of base_urls and preferred_proxy is
\* unset or one of free_proxies, whatever calls were made; so the endpoints and
\* the proxies a call iterates are as many as, and the same as, the configured
\* ones, and a call makes at most |base_urls| x (|free_proxies| + 1) x
\* max_attempts attempts.
C23_PreferredAmongCandidates ==
    /\ preferred_base \in {None} \cup Range(base_urls)
    /\ preferred_proxy \in {None} \cup Range(free_proxies)
    /\ pc # "idle" =>
          /\ Len(bases) = Len(base_urls)
          /\ Range(bases) = Range(base_urls)
          /\ Len(effective_proxies) = Len(free_proxies) + 1
          /\ Range(effective_proxies) = {None} \cup Range(free_proxies)
    /\ Len(getLog) <= Len(base_urls) * (Len(free_proxies) + 1) * max_attempts

\* C23 witness: with three endpoints, two proxies and two attempts, the last
\* endpoint and the last proxy are the remembered ones and a call has made
\* all of its 18 attempts
C23_Witness ==
    /\ Len(base_urls) = 3
    /\ Len(free_proxies) = 2
    /\ max_attempts = 2
    /\ preferred_base = base_urls[3]
    /\ preferred_proxy = free_proxies[2]
    /\ bases[1] = base_urls[3]
    /\ effective_proxies[1] = free_proxies[2]
    /\ Len(getLog) = 18

====
